---- MODULE Spec2Model ----
(***************************************************************************)
(* Model of the trial engine of src/src/FlashLagGame.jsx (the English      *)
(* variant, lines 1..1025; the second variant in the same file differs     *)
(* only in its user-facing strings).                                       *)
(*                                                                         *)
(* Lengths are fixed-point numbers in milli-pixels (1 px = 1000), so that  *)
(* the per-tick advance speed[px/s] * dt[ms] is exact; timestamps are in   *)
(* milliseconds.  Every event handler is one action; the re-render React   *)
(* performs after a handler, and the effects of that render, are part of   *)
(* the action.                                                             *)
(*                                                                         *)
(* draw reads its timestamp only through ts - lastTsRef and through        *)
(* ts <= flashHideAtRef, and startTrial clears both refs, so timestamps    *)
(* are counted from the frame before a trial's first tick.                 *)
(***************************************************************************)
EXTENDS Integers, Sequences, FiniteSets, TLC

\* ------------------------------------------------------------------ bounds
FrameMs == 1000             \* granularity of the animation clock, in ms
MaxFrames == 5              \* a trial gets no tick later than MaxFrames * FrameMs
MaxResults == 3             \* Spec: no trial is started once this many records exist
MaxLiveResults == 1         \* SpecLive: the same
MaxSessionResults == 6      \* SpecSession: the same
RandomGrid == 2             \* Math.random() returns k / RandomGrid, k < RandomGrid

DtFrames == {1, 2}          \* a tick arrives 1 or 2 frames after the last one
WrapWidths == {474, 900}    \* widths the ResizeObserver reports (px)
ClickXs == {400}             \* click positions (px)
\* Clicks at a sub-pixel x (clientX - rect.left is fractional when the canvas
\* sits at a fractional offset), in 1/1000 px.
SubPixelClickXs == {583995}
Speeds == {280, 600}        \* values of the speed slider (px/s)
FlashLeads == {-60, 200}    \* values of the flash-lead slider (px)
RangeVals == {75, 85}       \* values of the two offset-range sliders (px)
\* Extremes of the controls: the narrowest and a wide stage (px), the ends
\* of the offset-range sliders and of the flash-lead slider (px).
TrackWidths == {320, 900}
TrackOffsets == {-200, 200}
TrackLeads == {-60, 200}
\* Arguments handed to pickRandomOffset and clamp on their own (px).
OffsetInputs == {-80, 0, 1, 3, 4, 10, 15}
FlashDurations == {60, 200} \* values of the flash-duration slider (ms)
NameInputs == {<<" ">>, <<"A", " ">>}
\* Names and clicks of the sessions of SpecSession.
SessionNames == {<<"A">>, <<"B">>}
SessionClickXs == {400, 500}

\* --------------------------------------------------------------- constants
Cents == 100                \* round2 keeps 1/100 px
Unit == 10 * Cents          \* fixed-point scale: milli-pixels per pixel
MODE_FLASH_LAG == "flash-lag"
MODE_DISAPPEARING == "disappearing"
padding == 24 * Unit
MinWrapWidth == 320
TrialsPerParticipant == 3
\* null; a nullable value v is held as <<v>>
Null == <<>>

Modes == {MODE_FLASH_LAG, MODE_DISAPPEARING}

\* ----------------------------------------------------------------- helpers
Max(a, b) == IF a >= b THEN a ELSE b
Min(a, b) == IF a <= b THEN a ELSE b
Abs(v) == IF v < 0 THEN -v ELSE v

\* Math.round(n / d) for d > 0: nearest integer, halves towards +infinity.
RoundDiv(n, d) == (2 * n + d) \div (2 * d)

RECURSIVE Gcd(_, _)
Gcd(a, b) == IF b = 0 THEN a ELSE Gcd(b, a % b)

\* A clamp that lets every value through.
clampNone(v, a, b) == v

\* A clamp with its two bounds taken in the wrong order.
clampSwapped(v, a, b) == Min(a, Max(b, v))

clamp(v, a, b) == Max(a, Min(b, v))

\* round2 keeps two decimals: a multiple of 10 milli-pixels.
round2(v) == RoundDiv(v, Unit \div Cents) * (Unit \div Cents)

\* A trigger x on the far side of the centre.
computeTargetXMirrored(w, lead) == (w * Unit) \div 2 + lead

computeTargetX(w, lead) == (w * Unit) \div 2 - lead

\* String.prototype.trim on a sequence of characters.
RECURSIVE trim(_)
trim(s) ==
  IF s = <<>> THEN s
  ELSE IF Head(s) = " " THEN trim(Tail(s))
  ELSE IF s[Len(s)] = " " THEN trim(SubSeq(s, 1, Len(s) - 1))
  ELSE s

\* canStartTrialLogic without its name test.
canStartTrialLogicNoName(trialIndex, isRun, awaiting, name) ==
  IF isRun THEN FALSE
  ELSE IF trialIndex >= TrialsPerParticipant THEN FALSE
  ELSE IF trialIndex = 0 THEN ~awaiting ELSE awaiting

\* canStartTrialLogic that treats every trial as the first one.
canStartTrialLogicNoAwait(trialIndex, isRun, awaiting, name) ==
  IF isRun THEN FALSE
  ELSE IF trim(name) = <<>> THEN FALSE
  ELSE IF trialIndex >= TrialsPerParticipant THEN FALSE
  ELSE ~awaiting

canStartTrialLogic(trialIndex, isRun, awaiting, name) ==
  IF isRun THEN FALSE
  ELSE IF trim(name) = <<>> THEN FALSE
  ELSE IF trialIndex >= TrialsPerParticipant THEN FALSE
  ELSE IF trialIndex = 0 THEN ~awaiting ELSE awaiting

\* An offset picker that steps to the 5 px grid and does not clamp.
pickRandomOffsetUnclamped(min, max, r) ==
  LET lo == Min(min, max)
      hi == Max(min, max)
      rawG == r * (hi - lo) + lo * RandomGrid
  IN  IF hi = lo THEN lo * Unit ELSE RoundDiv(rawG, 5 * RandomGrid) * 5 * Unit

\* An offset picker that rounds to whole pixels instead of the 5 px grid.
pickRandomOffsetUnstepped(min, max, r) ==
  LET lo == Min(min, max)
      hi == Max(min, max)
      rawG == r * (hi - lo) + lo * RandomGrid
  IN  IF hi = lo THEN lo * Unit
      ELSE clamp(RoundDiv(rawG, RandomGrid), lo, hi) * Unit

\* pickRandomOffset(min, max) when Math.random() returns r / RandomGrid
\* (arguments in px, result in milli-pixels).
pickRandomOffset(min, max, r) ==
  LET lo == Min(min, max)
      hi == Max(min, max)
      \* raw = r / RandomGrid * (hi - lo) + lo, as a multiple of 1 / RandomGrid
      rawG == r * (hi - lo) + lo * RandomGrid
      stepped == RoundDiv(rawG, 5 * RandomGrid) * 5
  IN  IF hi = lo THEN lo * Unit ELSE clamp(stepped, lo, hi) * Unit

\* -------------------------------------------------------------------- state
VARIABLES
  \* refs
  rafRef, pendingFrames, runningRef, posRef, lastTsRef, eventTriggeredRef,
  eventXRef, flashHideAtRef, currentLeadRef, disappearRangeRef,
  responseWindowRef,
  \* React state
  participant, isRunning, trialIdx, awaitingNext, responseLocked, mode,
  speed, flashLead, disappearRange, flashDuration, results, summary,
  summaries, message, stageSize

refs == <<rafRef, pendingFrames, runningRef, posRef, lastTsRef,
          eventTriggeredRef, eventXRef, flashHideAtRef, currentLeadRef,
          disappearRangeRef, responseWindowRef>>
config == <<mode, speed, flashLead, disappearRange, flashDuration>>
data == <<results, summary, summaries>>
vars == <<refs, participant, isRunning, trialIdx, awaitingNext,
          responseLocked, config, data, message, stageSize>>

Init ==
  /\ rafRef = 0
  /\ pendingFrames = {}
  /\ runningRef = FALSE
  /\ posRef = 0
  /\ lastTsRef = 0
  /\ eventTriggeredRef = FALSE
  /\ eventXRef = Null
  /\ flashHideAtRef = 0
  /\ currentLeadRef = 0
  /\ disappearRangeRef = [min |-> -80, max |-> 80]
  /\ responseWindowRef = FALSE
  /\ participant = <<>>
  /\ isRunning = FALSE
  /\ trialIdx = 0
  /\ awaitingNext = FALSE
  /\ responseLocked = FALSE
  /\ mode = MODE_DISAPPEARING
  /\ speed = 280
  /\ flashLead = 80
  /\ disappearRange = [min |-> -80, max |-> 80]
  /\ flashDuration = 60
  /\ results = <<>>
  /\ summary = Null
  /\ summaries = <<>>
  /\ message = <<"EnterName">>
  /\ stageSize = [width |-> 900]

\* ------------------------------------------------------- browser primitives
\* A cancelAnimationFrame that drops nothing.
cancelNoFrame(pending, id) == pending

\* cancelAnimationFrame(id): the callback registered under id is dropped.
cancelAnimationFrame(pending, id) == {f \in pending : f.id # id}

\* requestAnimationFrame(draw): the id the new callback is registered under.
NewFrameId(pending) ==
  CHOOSE n \in 1 .. (Cardinality(pending) + 1) :
    /\ n \notin {f.id : f \in pending}
    /\ \A m \in 1 .. (n - 1) : m \in {f.id : f \in pending}

\* The render a callback was created in: draw, and the draw it re-registers,
\* read speed, mode, stageSize and flashDuration of that render.
Closure == [speed |-> speed, mode |-> mode, width |-> stageSize.width,
            flashDuration |-> flashDuration]

\* ------------------------------------------------------------------ messages
getResponsePrompt(m) == <<"ResponsePrompt", m>>
getStartPrompt(m) == <<"StartPrompt", m>>

\* The same effect without its "if (isRunning) return".
LeadEffectWhileRunning(lead, range) ==
  IF <<mode', disappearRange', flashLead', isRunning'>>
       # <<mode, disappearRange, flashLead, isRunning>>
  THEN /\ currentLeadRef' =
            IF mode' = MODE_DISAPPEARING
            THEN ((disappearRange'.min + disappearRange'.max) * Unit) \div 2
            ELSE flashLead' * Unit
       /\ disappearRangeRef' =
            IF mode' = MODE_DISAPPEARING THEN disappearRange' ELSE range
  ELSE /\ currentLeadRef' = lead
       /\ disappearRangeRef' = range

\* ----------------------------------------------------- effects of a render
\* useEffect on [mode, disappearRange.min, disappearRange.max, flashLead,
\* isRunning]: outside a run the lead ref follows the controls.  lead and
\* range are the values the handler left in the two refs.
LeadEffect(lead, range) ==
  IF /\ <<mode', disappearRange', flashLead', isRunning'>>
          # <<mode, disappearRange, flashLead, isRunning>>
     /\ ~isRunning'
  THEN /\ currentLeadRef' =
            IF mode' = MODE_DISAPPEARING
            THEN ((disappearRange'.min + disappearRange'.max) * Unit) \div 2
            ELSE flashLead' * Unit
       /\ disappearRangeRef' =
            IF mode' = MODE_DISAPPEARING THEN disappearRange' ELSE range
  ELSE /\ currentLeadRef' = lead
       /\ disappearRangeRef' = range

\* ------------------------------------------------- pieces of the handlers
\* The name guard without trim().
NameMissingUntrimmed(name) == name = <<>>

\* !participant.trim(): the guard of startTrial and of startNewParticipant.
NameMissing(name) == trim(name) = <<>>

\* startTrial that forgets to clear eventXRef.
RunStateKeepsEventX(window) ==
  [pos |-> padding, lastTs |-> 0, eventTriggered |-> FALSE,
   eventX |-> eventXRef, flashHideAt |-> 0, responseWindow |-> FALSE]

\* startTrial that forgets to close the response window.
RunStateKeepsWindow(window) ==
  [pos |-> padding, lastTs |-> 0, eventTriggered |-> FALSE, eventX |-> Null,
   flashHideAt |-> 0, responseWindow |-> window]

\* startTrial that forgets to clear lastTsRef.
RunStateKeepsLastTs(window) ==
  [pos |-> padding, lastTs |-> lastTsRef, eventTriggered |-> FALSE,
   eventX |-> Null, flashHideAt |-> 0, responseWindow |-> FALSE]

\* startTrial's reset of the run state ("reset to left"); window is the
\* response-window flag the trial starts from.
RunStateAtStart(window) ==
  [pos |-> padding, lastTs |-> 0, eventTriggered |-> FALSE, eventX |-> Null,
   flashHideAt |-> 0, responseWindow |-> FALSE]

\* A tick that opens the response window as soon as the event fires.
OpensWindowAtEvent(stops, fires) == stops \/ fires

\* draw: responseWindowRef is set in the two stopping branches only.
OpensWindow(stops, fires) == stops

\* A tick that requests the next frame whether or not it stopped the trial.
RequestsNextFrameAlways(stops) == TRUE

\* draw: the two stopping branches return before the requestAnimationFrame
\* at the end of the callback.
RequestsNextFrame(stops) == ~stops

\* Elapsed time measured from 0 on the first tick of a trial.
ElapsedMsSinceZero(lastTs, ts) == ts - lastTs

\* draw: the time since the previous tick (ms); a cleared lastTsRef is set
\* to ts first, so the first tick of a trial sees no elapsed time.
ElapsedMs(lastTs, ts) == ts - (IF lastTs = 0 THEN ts ELSE lastTs)

\* An event that fires on every tick past targetX.
EventFiresWhenPast(triggered, pos, targetX) == pos >= targetX

\* draw: the event fires when the target crosses targetX for the first time.
EventFires(triggered, pos, targetX) == ~triggered /\ pos >= targetX

\* draw: what eventXRef holds after the trigger test.
EventXAfter(fires, pos, eventX) == IF fires THEN <<pos>> ELSE eventX

\* draw: where the target is left by the branch of the firing tick that
\* stops the run (posRef.current = eventXRef.current).
PosAtStop(pos, eventX) == eventX[1]

\* A firing tick that never ends the run / that ends it in every mode.
StopsOnTriggerNever(m) == FALSE
StopsOnTriggerAlways(m) == TRUE

\* draw: the firing tick ends the run in every mode but flash-lag.
StopsOnTrigger(m) == m # MODE_FLASH_LAG

\* draw: the run ends at the right boundary, in flash-lag mode only.
StopsAtBoundary(m, pos, xMax) == m = MODE_FLASH_LAG /\ pos >= xMax

\* Early returns that test neither the lock nor the window / not the window.
ClickIgnoredUngated(locked, window, triggered, eventX) ==
  ~triggered \/ eventX = Null
ClickIgnoredEarly(locked, window, triggered, eventX) ==
  locked \/ ~triggered \/ eventX = Null

\* onCanvasClick: the three early returns.
ClickIgnored(locked, window, triggered, eventX) ==
  locked \/ ~window \/ ~triggered \/ eventX = Null

\* ------------------------------------------------------------------ actions
\* The start / next-trial button (enabled iff canStartTrial) runs startTrial.
canStartTrial ==
  canStartTrialLogic(trialIdx, isRunning, awaitingNext, participant)

startTrial ==
  /\ canStartTrial
  /\ IF NameMissing(participant)
     THEN /\ message' = <<"NeedName">>
          /\ UNCHANGED <<refs, participant, isRunning, trialIdx, awaitingNext,
                         responseLocked, config, data, stageSize>>
     ELSE \E leadForTrial \in
               (IF mode = MODE_DISAPPEARING
                THEN {pickRandomOffset(disappearRange.min, disappearRange.max, r) :
                        r \in 0 .. (RandomGrid - 1)}
                ELSE {flashLead * Unit}) :
            LET cancelled == cancelAnimationFrame(pendingFrames, rafRef)
                id == NewFrameId(cancelled)
                fresh == RunStateAtStart(responseWindowRef)
            IN  /\ posRef' = fresh.pos
                /\ lastTsRef' = fresh.lastTs
                /\ eventTriggeredRef' = fresh.eventTriggered
                /\ eventXRef' = fresh.eventX
                /\ flashHideAtRef' = fresh.flashHideAt
                /\ responseWindowRef' = fresh.responseWindow
                /\ responseLocked' = FALSE
                /\ runningRef' = TRUE
                /\ isRunning' = TRUE
                /\ awaitingNext' = FALSE
                /\ message' = getStartPrompt(mode)
                /\ rafRef' = id
                /\ pendingFrames' = cancelled \cup {[id |-> id, env |-> Closure]}
                /\ UNCHANGED <<participant, trialIdx, config, data, stageSize>>
                /\ LeadEffect(leadForTrial, disappearRange)

\* One animation frame: the browser runs a pending callback f at timestamp ts.
draw(f, ts) ==
  LET env == f.env
      left == pendingFrames \ {f}
  IN
  /\ UNCHANGED <<participant, trialIdx, awaitingNext, responseLocked, config,
                 data, stageSize>>
  /\ IF ~runningRef
     THEN /\ UNCHANGED <<rafRef, runningRef, posRef, lastTsRef,
                         eventTriggeredRef, eventXRef, flashHideAtRef,
                         responseWindowRef, isRunning, message>>
          /\ pendingFrames' = left
          /\ LeadEffect(currentLeadRef, disappearRangeRef)
     ELSE
       LET dt == ElapsedMs(lastTsRef, ts)
           pos == posRef + env.speed * dt
           xMax == env.width * Unit - padding
           targetX == computeTargetX(env.width, currentLeadRef)
           fires == EventFires(eventTriggeredRef, pos, targetX)
           triggered == eventTriggeredRef \/ fires
           eventX == EventXAfter(fires, pos, eventXRef)
           hideAt == IF fires /\ env.mode = MODE_FLASH_LAG
                     THEN ts + env.flashDuration ELSE flashHideAtRef
           vanishes == fires /\ StopsOnTrigger(env.mode)
           stops == vanishes \/ StopsAtBoundary(env.mode, pos, xMax)
       IN
       /\ lastTsRef' = ts
       /\ posRef' = IF vanishes THEN PosAtStop(pos, eventX) ELSE pos
       /\ eventTriggeredRef' = triggered
       /\ eventXRef' = eventX
       /\ flashHideAtRef' = hideAt
       /\ IF stops
          THEN /\ runningRef' = FALSE
               /\ isRunning' = FALSE
               /\ message' = getResponsePrompt(env.mode)
               /\ LeadEffect(currentLeadRef, disappearRangeRef)
          ELSE /\ UNCHANGED <<runningRef, isRunning, message>>
               /\ LeadEffect(currentLeadRef, disappearRangeRef)
       /\ responseWindowRef' =
            (IF OpensWindow(stops, fires) THEN TRUE ELSE responseWindowRef)
       /\ IF RequestsNextFrame(stops)
          THEN LET id == NewFrameId(left)
               IN  /\ rafRef' = id
                   /\ pendingFrames' = left \cup {[id |-> id, env |-> env]}
          ELSE /\ pendingFrames' = left
               /\ rafRef' = rafRef

Tick ==
  \E f \in pendingFrames, d \in DtFrames :
    /\ lastTsRef + d * FrameMs <= MaxFrames * FrameMs
    /\ draw(f, lastTsRef + d * FrameMs)

\* The animation frames of SpecSession: one callback per display frame.
SteadyTick ==
  \E f \in pendingFrames :
    /\ lastTsRef + FrameMs <= MaxFrames * FrameMs
    /\ draw(f, lastTsRef + FrameMs)

\* Sum of abs_error_px over a sequence of trial records.
RECURSIVE SumAbsError(_)
SumAbsError(rows) ==
  IF rows = <<>> THEN 0 ELSE Head(rows).abs_error_px + SumAbsError(Tail(rows))

\* A record that numbers its trial from 0.
TrialOrdinalFromZero(idx) == idx

\* onCanvasClick: the record's field trial, trialIdx + 1.
TrialOrdinal(idx) == idx + 1

\* A click handler that keeps only the new record.
ReplaceRecords(rows, trial) == <<trial>>

\* onCanvasClick: newResults = [...results, trial].
AppendRecord(rows, trial) == Append(rows, trial)

\* A session that never counts as complete.
SessionCompleteNever(completedTrials) == FALSE

\* A session that counts as complete after every trial.
SessionCompleteAlways(completedTrials) == TRUE

\* onCanvasClick: completedTrials >= 3.
SessionComplete(completedTrials) == completedTrials >= TrialsPerParticipant

\* A leaderboard that keeps the earlier entries of a name.
appendSummary(prev, newSummary) == Append(prev, newSummary)

\* onCanvasClick: the updater passed to setSummaries.
upsertSummary(prev, newSummary) ==
  LET withoutDup ==
        SelectSeq(prev, LAMBDA e : e.participant # newSummary.participant)
  IN  Append(withoutDup, newSummary)

\* A click on the canvas at x (1/1000 px from the canvas' left edge).
onCanvasClick(x) ==
  IF ClickIgnored(responseLocked, responseWindowRef, eventTriggeredRef,
                  eventXRef)
  THEN UNCHANGED vars
  ELSE
    LET clickX == x
        truth == clamp(eventXRef[1], padding, stageSize.width * Unit - padding)
        signedError == clickX - truth
        absError == Abs(signedError)
        trial == [participant |-> trim(participant),
                  trial |-> TrialOrdinal(trialIdx),
                  mode |-> mode,
                  abs_error_px |-> round2(absError),
                  speed_px_s |-> speed,
                  lead_px |-> round2(currentLeadRef),
                  truth_x_px |-> round2(truth),
                  click_x_px |-> round2(clickX),
                  signed_error_px |-> round2(signedError)]
        newResults == AppendRecord(results, trial)
        completedTrials == trialIdx + 1
        rowsThisParticipant ==
          SelectSeq(newResults, LAMBDA r : r.participant = trim(participant))
        \* avg is a quotient; round2(avg) rounds it to 1/100 px.
        avg2 == RoundDiv(SumAbsError(rowsThisParticipant),
                         Len(rowsThisParticipant) * (Unit \div Cents))
                  * (Unit \div Cents)
        newSummary == [participant |-> trim(participant),
                       average_abs_error_px |-> avg2]
    IN
    /\ responseWindowRef' = FALSE
    /\ runningRef' = FALSE
    /\ isRunning' = FALSE
    /\ pendingFrames' = cancelAnimationFrame(pendingFrames, rafRef)
    /\ results' = newResults
    /\ responseLocked' = TRUE
    /\ trialIdx' = completedTrials
    /\ IF SessionComplete(completedTrials)
       THEN /\ summary' = <<newSummary>>
            /\ summaries' = upsertSummary(summaries, newSummary)
            /\ message' = <<"AllDone", trim(participant), avg2>>
            /\ awaitingNext' = FALSE
       ELSE /\ message' = <<"Recorded">>
            /\ awaitingNext' = TRUE
            /\ UNCHANGED <<summary, summaries>>
    /\ UNCHANGED <<rafRef, posRef, lastTsRef, eventTriggeredRef, eventXRef,
                   flashHideAtRef, participant, config, stageSize>>
    /\ LeadEffect(currentLeadRef, disappearRangeRef)

Click == \E x \in ClickXs : onCanvasClick(x * Unit)

SubPixelClick == \E x \in SubPixelClickXs : onCanvasClick(x)

SessionClick == \E x \in SessionClickXs : onCanvasClick(x * Unit)

\* The new-participant button (enabled iff canStartNewParticipant).
canStartNewParticipant == ~isRunning /\ trialIdx >= TrialsPerParticipant

startNewParticipant ==
  /\ canStartNewParticipant
  /\ IF NameMissing(participant)
     THEN /\ message' = <<"NeedNewName">>
          /\ UNCHANGED <<summary, trialIdx, awaitingNext>>
     ELSE /\ summary' = Null
          /\ trialIdx' = 0
          /\ awaitingNext' = FALSE
          /\ message' = <<"Ready", getStartPrompt(mode)>>
  /\ UNCHANGED <<refs, participant, isRunning, responseLocked, config, results,
                 summaries, stageSize>>

\* What stop() reads and writes: the two running flags, the id of the last
\* requested frame and the callbacks the browser still holds.
RunHandles ==
  [runningRef |-> runningRef, isRunning |-> isRunning, rafRef |-> rafRef,
   pendingFrames |-> pendingFrames]

\* A stop that clears the flags and leaves the requested frame alone.
stopFlagsOnly(h) ==
  [h EXCEPT !.runningRef = FALSE, !.isRunning = FALSE]

stop(h) ==
  [h EXCEPT !.runningRef = FALSE,
            !.isRunning = FALSE,
            !.pendingFrames = cancelAnimationFrame(h.pendingFrames, h.rafRef)]

\* A reset that leaves the response window and the event flags as they are.
resetKeepsWindow ==
  /\ runningRef' = stop(RunHandles).runningRef
  /\ isRunning' = stop(RunHandles).isRunning
  /\ pendingFrames' = stop(RunHandles).pendingFrames
  /\ results' = <<>>
  /\ summary' = Null
  /\ summaries' = <<>>
  /\ trialIdx' = 0
  /\ awaitingNext' = FALSE
  /\ participant' = <<>>
  /\ message' = <<"EnterName">>
  /\ UNCHANGED <<rafRef, posRef, lastTsRef, flashHideAtRef, responseLocked,
                 responseWindowRef, eventTriggeredRef, eventXRef, config,
                 stageSize>>
  /\ LeadEffect(currentLeadRef, disappearRangeRef)

\* "Reset all": stop(), then everything recorded is dropped.
reset ==
  /\ runningRef' = stop(RunHandles).runningRef
  /\ isRunning' = stop(RunHandles).isRunning
  /\ pendingFrames' = stop(RunHandles).pendingFrames
  /\ results' = <<>>
  /\ summary' = Null
  /\ summaries' = <<>>
  /\ trialIdx' = 0
  /\ awaitingNext' = FALSE
  /\ participant' = <<>>
  /\ responseWindowRef' = FALSE
  /\ eventTriggeredRef' = FALSE
  /\ eventXRef' = Null
  /\ message' = <<"EnterName">>
  /\ UNCHANGED <<rafRef, posRef, lastTsRef, flashHideAtRef, responseLocked,
                 config, stageSize>>
  /\ LeadEffect(currentLeadRef, disappearRangeRef)

\* The participant name field.
setParticipant ==
  \E name \in NameInputs :
    /\ participant' = name
    /\ UNCHANGED <<refs, isRunning, trialIdx, awaitingNext, responseLocked,
                   config, data, message, stageSize>>

\* The same field, typed into by the participants of SpecSession.
typeName ==
  \E name \in SessionNames :
    /\ participant' = name
    /\ UNCHANGED <<refs, isRunning, trialIdx, awaitingNext, responseLocked,
                   config, data, message, stageSize>>

\* The mode buttons of the settings panel.
setMode ==
  \E m \in Modes :
    /\ mode' = m
    /\ UNCHANGED <<rafRef, pendingFrames, runningRef, posRef, lastTsRef,
                   eventTriggeredRef, eventXRef, flashHideAtRef,
                   responseWindowRef, participant, isRunning, trialIdx,
                   awaitingNext, responseLocked, speed, flashLead,
                   disappearRange, flashDuration, data, message, stageSize>>
    /\ LeadEffect(currentLeadRef, disappearRangeRef)

\* The ResizeObserver callback for a wrapper of width w px, and the render it
\* causes: stageSize is a new object, so drawStage is a new function, and the
\* effect that depends on it is cleaned up (cancelAnimationFrame) and run
\* again.
\* A rescale in proportion to the full widths, padding not taken out.
RescaleFullWidth(x, prevWidth, newWidth) ==
  RoundDiv(x * newWidth, prevWidth)

Rescale(x, prevWidth, newWidth) ==
  LET prevPlayable == Max(1, prevWidth - 2 * (padding \div Unit))
      newPlayable == Max(1, newWidth - 2 * (padding \div Unit))
      g == Gcd(newPlayable, prevPlayable)
  IN  padding + RoundDiv((x - padding) * (newPlayable \div g), prevPlayable \div g)

Resize ==
  \E w \in WrapWidths :
    LET newWidth == Max(MinWrapWidth, w)
        prev == stageSize.width
    IN  /\ stageSize' = [width |-> newWidth]
        /\ posRef' = IF prev # newWidth THEN Rescale(posRef, prev, newWidth)
                     ELSE posRef
        /\ eventXRef' = IF prev # newWidth /\ eventXRef # Null
                        THEN <<Rescale(eventXRef[1], prev, newWidth)>>
                        ELSE eventXRef
        /\ pendingFrames' = cancelAnimationFrame(pendingFrames, rafRef)
        /\ UNCHANGED <<rafRef, runningRef, lastTsRef, eventTriggeredRef,
                       flashHideAtRef, currentLeadRef, disappearRangeRef,
                       responseWindowRef, participant, isRunning, trialIdx,
                       awaitingNext, responseLocked, config, data, message>>

\* The sliders of the settings panel.  The flash controls are rendered in
\* flash-lag mode only, the offset-range controls in disappearing mode only.
setSpeed ==
  \E v \in Speeds :
    /\ speed' = v
    /\ UNCHANGED <<refs, participant, isRunning, trialIdx, awaitingNext,
                   responseLocked, mode, flashLead, disappearRange,
                   flashDuration, data, message, stageSize>>

setFlashDuration ==
  \E v \in FlashDurations :
    /\ mode = MODE_FLASH_LAG
    /\ flashDuration' = v
    /\ UNCHANGED <<refs, participant, isRunning, trialIdx, awaitingNext,
                   responseLocked, mode, speed, flashLead, disappearRange,
                   data, message, stageSize>>

setFlashLead ==
  \E v \in FlashLeads :
    /\ mode = MODE_FLASH_LAG
    /\ flashLead' = v
    /\ UNCHANGED <<rafRef, pendingFrames, runningRef, posRef, lastTsRef,
                   eventTriggeredRef, eventXRef, flashHideAtRef,
                   responseWindowRef, participant, isRunning, trialIdx,
                   awaitingNext, responseLocked, mode, speed, disappearRange,
                   flashDuration, data, message, stageSize>>
    /\ LeadEffect(currentLeadRef, disappearRangeRef)

setDisappearMin ==
  \E val \in RangeVals :
    LET clamped == Min(val, 200)
    IN  /\ mode = MODE_DISAPPEARING
        /\ disappearRange' =
             IF clamped > disappearRange.max
             THEN [min |-> disappearRange.max, max |-> clamped]
             ELSE [min |-> clamped, max |-> disappearRange.max]
        /\ UNCHANGED <<rafRef, pendingFrames, runningRef, posRef, lastTsRef,
                       eventTriggeredRef, eventXRef, flashHideAtRef,
                       responseWindowRef, participant, isRunning, trialIdx,
                       awaitingNext, responseLocked, mode, speed, flashLead,
                       flashDuration, data, message, stageSize>>
        /\ LeadEffect(currentLeadRef, disappearRangeRef)

setDisappearMax ==
  \E val \in RangeVals :
    LET clamped == Max(val, -200)
    IN  /\ mode = MODE_DISAPPEARING
        /\ disappearRange' =
             IF clamped < disappearRange.min
             THEN [min |-> clamped, max |-> disappearRange.min]
             ELSE [min |-> disappearRange.min, max |-> clamped]
        /\ UNCHANGED <<rafRef, pendingFrames, runningRef, posRef, lastTsRef,
                       eventTriggeredRef, eventXRef, flashHideAtRef,
                       responseWindowRef, participant, isRunning, trialIdx,
                       awaitingNext, responseLocked, mode, speed, flashLead,
                       flashDuration, data, message, stageSize>>
        /\ LeadEffect(currentLeadRef, disappearRangeRef)

\* ------------------------------------------------------------ specifications
\* Spec: whole sessions (three trials, the leaderboard, a new participant).
\* The name field and the mode buttons are used between trials only.
BetweenTrials == ~isRunning /\ ~responseWindowRef

Next ==
  \/ Len(results) < MaxResults /\ startTrial
  \/ Tick
  \/ Click
  \/ startNewParticipant
  \/ reset
  \/ BetweenTrials /\ setParticipant
  \/ BetweenTrials /\ setMode
  \/ Resize

Spec == Init /\ [][Next]_vars

\* SpecLive: the first MaxLiveResults trials of a session, with every control
\* of the page usable at any moment, also while the target moves and while
\* the response window is open.
NextLive ==
  \/ Len(results) < MaxLiveResults /\ startTrial
  \/ Tick
  \/ SubPixelClick
  \/ reset
  \/ setParticipant
  \/ setMode
  \/ setSpeed
  \/ Resize

SpecLive == Init /\ [][NextLive]_vars

\* Sessions of several participants: names are typed between trials, every
\* trial runs at the initial settings.
NextSession ==
  \/ Len(results) < MaxSessionResults /\ startTrial
  \/ SteadyTick
  \/ SessionClick
  \/ startNewParticipant
  \/ reset
  \/ BetweenTrials /\ typeName

SpecSession == Init /\ [][NextSession]_vars

\* The settings panel in use before and during trials; no click is made, so
\* every trial is a first trial.
NextSettings ==
  \/ startTrial
  \/ Tick
  \/ BetweenTrials /\ typeName
  \/ setMode
  \/ setSpeed
  \/ setFlashLead
  \/ setDisappearMin
  \/ setDisappearMax

SpecSettings == Init /\ [][NextSettings]_vars

\* The offset picker on its own: a named participant runs disappearing trials
\* one after the other, the two arguments of pickRandomOffset being drawn
\* from OffsetInputs in either order.
InitOffsets ==
  /\ rafRef = 0
  /\ pendingFrames = {}
  /\ runningRef = FALSE
  /\ posRef = 0
  /\ lastTsRef = 0
  /\ eventTriggeredRef = FALSE
  /\ eventXRef = Null
  /\ flashHideAtRef = 0
  /\ disappearRange \in [min : OffsetInputs, max : OffsetInputs]
  /\ disappearRangeRef = disappearRange
  /\ currentLeadRef = ((disappearRange.min + disappearRange.max) * Unit) \div 2
  /\ responseWindowRef = FALSE
  /\ participant = <<"A">>
  /\ isRunning = FALSE
  /\ trialIdx = 0
  /\ awaitingNext = FALSE
  /\ responseLocked = FALSE
  /\ mode = MODE_DISAPPEARING
  /\ speed = 280
  /\ flashLead = 80
  /\ flashDuration = 60
  /\ results = <<>>
  /\ summary = Null
  /\ summaries = <<>>
  /\ message = <<"EnterName">>
  /\ stageSize = [width |-> 900]

NextOffsets ==
  \/ startTrial
  \/ SteadyTick

SpecOffsets == InitOffsets /\ [][NextOffsets]_vars

\* The browser keeps running the animation-frame callbacks that are
\* registered: one trial with a click, resizes, mode changes and resets, under
\* weak fairness of the frame callback.
NextFair ==
  \/ Len(results) < MaxLiveResults /\ startTrial
  \/ SteadyTick
  \/ Click
  \/ reset
  \/ setParticipant
  \/ setMode
  \/ Resize

SpecFair == Init /\ [][NextFair]_vars /\ WF_vars(SteadyTick)

\* The controls at their extremes: a named participant runs and scores one
\* trial on a stage and with settings that resizes and sliders have left.
InitTrack ==
  /\ rafRef = 0
  /\ pendingFrames = {}
  /\ runningRef = FALSE
  /\ posRef = 0
  /\ lastTsRef = 0
  /\ eventTriggeredRef = FALSE
  /\ eventXRef = Null
  /\ flashHideAtRef = 0
  /\ mode \in Modes
  /\ flashLead \in TrackLeads
  /\ disappearRange \in {r \in [min : TrackOffsets, max : TrackOffsets] :
                            r.min <= r.max}
  /\ disappearRangeRef = disappearRange
  /\ currentLeadRef =
       IF mode = MODE_DISAPPEARING
       THEN ((disappearRange.min + disappearRange.max) * Unit) \div 2
       ELSE flashLead * Unit
  /\ responseWindowRef = FALSE
  /\ participant = <<"A">>
  /\ isRunning = FALSE
  /\ trialIdx = 0
  /\ awaitingNext = FALSE
  /\ responseLocked = FALSE
  /\ speed = 280
  /\ flashDuration = 60
  /\ results = <<>>
  /\ summary = Null
  /\ summaries = <<>>
  /\ message = <<"EnterName">>
  /\ stageSize \in {[width |-> w] : w \in TrackWidths}

NextTrack ==
  \/ Len(results) < MaxLiveResults /\ startTrial
  \/ SteadyTick
  \/ Click

SpecTrack == InitTrack /\ [][NextTrack]_vars

\* ------------------------------------------------------------------- claims
xMaxOfStage == stageSize.width * Unit - padding
Scorable == responseWindowRef /\ eventTriggeredRef /\ ~responseLocked
NameBlank == trim(participant) = <<>>
AllButMessage == <<refs, participant, isRunning, trialIdx, awaitingNext,
                   responseLocked, config, data, stageSize>>

\* C1: in every reachable state the recorded event position is non-null if
\* and only if eventTriggered is true.
C1_EventXIffTriggered == (eventXRef # Null) <=> eventTriggeredRef

\* A second trial has fired its event and has been rescaled by a resize.
C1_Witness ==
  /\ eventTriggeredRef
  /\ eventXRef # Null
  /\ Len(results) >= 1
  /\ stageSize.width # 900

\* C2: in every reachable state an open response window implies that the
\* event has fired.
C2_WindowImpliesTriggered == responseWindowRef => eventTriggeredRef

\* A flash-lag trial has stopped at the right boundary.
C2_Witness ==
  /\ responseWindowRef
  /\ eventTriggeredRef
  /\ message = getResponsePrompt(MODE_FLASH_LAG)
  /\ posRef >= xMaxOfStage

\* C3: once a click has been accepted (the response is locked), no step
\* before the next accepted start appends a record or raises the trial
\* counter; a record is appended only by a step that sets the lock, one
\* record at a time, and that step raises the counter by one.
C3_OneRecordPerTrial ==
  [][/\ responseLocked =>
          /\ results' = results \/ results' = <<>>
          /\ trialIdx' = trialIdx \/ trialIdx' = 0
     /\ results' # results /\ results' # <<>> =>
          /\ ~responseLocked
          /\ responseLocked'
          /\ Len(results') = Len(results) + 1
          /\ SubSeq(results', 1, Len(results)) = results
          /\ trialIdx' = trialIdx + 1]_vars

\* A click has been accepted and the next trial has not been started.
C3_Witness ==
  /\ responseLocked
  /\ ~responseWindowRef
  /\ awaitingNext
  /\ Len(results) = 2

\* C4: a click that arrives while responseWindowOpen /\ eventTriggered /\
\* ~responseLocked is false changes nothing, and a record is appended only
\* from a state in which that condition holds.
C4_IgnoredClickIsNoOp ==
  [][/\ \A x \in ClickXs :
          ~Scorable /\ onCanvasClick(x * Unit) => UNCHANGED vars
     /\ Len(results') > Len(results) => Scorable]_vars

\* The event has fired in flash-lag mode and the target is still moving: a
\* click here is premature.
C4_Witness ==
  /\ eventTriggeredRef
  /\ runningRef
  /\ ~responseWindowRef
  /\ ~responseLocked
  /\ pendingFrames # {}

\* C5: with trial counter 0 the start command is permitted iff the animation
\* is not running and the trimmed name is non-empty; with trial counter 3 or
\* more it is never permitted.
C5_StartGating ==
  /\ trialIdx = 0 => (canStartTrial <=> ~isRunning /\ ~NameBlank)
  /\ trialIdx >= 3 => ~canStartTrial

\* Three trials are done, a name is entered, nothing runs.
C5_Witness ==
  /\ trialIdx = 3
  /\ ~isRunning
  /\ ~NameBlank
  /\ Len(results) = 3

\* C6: with trial counter 1 or 2 the next-trial command is permitted iff the
\* previous response has been recorded and no trial has been started since
\* (awaiting-next, which is then the same as the response lock), the
\* animation is not running and the trimmed name is non-empty.
C6_NextGating ==
  trialIdx \in {1, 2} =>
    /\ awaitingNext <=> responseLocked
    /\ canStartTrial <=> (responseLocked /\ ~isRunning /\ ~NameBlank)

\* The first response is recorded and the next trial may be started.
C6_Witness ==
  /\ trialIdx = 1
  /\ awaitingNext
  /\ canStartTrial

\* C7: a start, next-trial or new-participant command issued while the
\* trimmed name is empty changes nothing but the message (no tick is
\* scheduled: pendingFrames is unchanged); the new-participant command then
\* sets the prompt for a name.
C7_RefusedWithoutName ==
  [][NameBlank =>
       /\ startTrial \/ startNewParticipant => UNCHANGED AllButMessage
       /\ startNewParticipant => message' = <<"NeedNewName">>]_vars

\* The new-participant command has been refused after a finished session.
C7_Witness ==
  /\ message = <<"NeedNewName">>
  /\ trialIdx = 3
  /\ summary # Null

\* C8: in disappearing mode the tick that fires the event leaves the target,
\* and the recorded event position, exactly at the trigger x.
C8_SnapsToTriggerX ==
  [][\A f \in pendingFrames :
       f.env.mode = MODE_DISAPPEARING /\ ~eventTriggeredRef
         /\ eventTriggeredRef' =>
           /\ posRef' = computeTargetX(f.env.width, currentLeadRef)
           /\ eventXRef' = <<posRef'>>]_vars

\* C9: in a disappearing-mode trial the tick that fires the event stops the
\* run, opens the response window and schedules no tick; while a callback of
\* such a trial is pending, the event has not fired or the run has stopped.
C9_DisappearingStopsOnTrigger ==
  /\ [](\A f \in pendingFrames :
          f.env.mode = MODE_DISAPPEARING => ~(eventTriggeredRef /\ runningRef))
  /\ [][\A f \in pendingFrames :
          f.env.mode = MODE_DISAPPEARING /\ ~eventTriggeredRef
            /\ eventTriggeredRef' =>
              /\ ~runningRef'
              /\ ~isRunning'
              /\ responseWindowRef'
              /\ pendingFrames' = {}]_vars

\* A disappearing-mode trial has fired its event and waits for the click.
C9_Witness ==
  /\ responseWindowRef
  /\ eventTriggeredRef
  /\ message = getResponsePrompt(MODE_DISAPPEARING)
  /\ ~runningRef
  /\ pendingFrames = {}

\* C10: in a flash-lag trial a tick that fires the event short of the right
\* boundary leaves the run going and the window closed, and a tick opens the
\* window and stops the run iff it leaves position >= stageWidth - padding.
C10_FlashLagStopsAtBoundary ==
  [][\A f \in pendingFrames :
       f.env.mode = MODE_FLASH_LAG /\ runningRef /\ lastTsRef' > lastTsRef =>
         /\ responseWindowRef' <=> posRef' >= xMaxOfStage
         /\ runningRef' <=> posRef' < xMaxOfStage
         /\ isRunning' <=> posRef' < xMaxOfStage
         /\ (pendingFrames' # {}) <=> posRef' < xMaxOfStage
         /\ ~eventTriggeredRef /\ eventTriggeredRef' /\ posRef' < xMaxOfStage
              => runningRef' /\ ~responseWindowRef']_vars

\* A flash-lag trial has fired its event before the boundary and is running.
C10_Witness ==
  /\ runningRef
  /\ eventTriggeredRef
  /\ ~responseWindowRef
  /\ posRef < xMaxOfStage
  /\ \E f \in pendingFrames : f.env.mode = MODE_FLASH_LAG

\* The record an accepted click appends, the event position it scores and
\* that position held into the playable track.
AcceptedClick == Len(results') = Len(results) + 1
NewRecord == results'[Len(results')]
TruthOfEvent ==
  IF eventXRef[1] < padding THEN padding
  ELSE IF eventXRef[1] > xMaxOfStage THEN xMaxOfStage
  ELSE eventXRef[1]

\* C11 (as stated): for every accepted click the record's ground truth is the
\* event position clamped into [padding, stageWidth - padding], its signed
\* error is clickX - truth and its absolute error is |signed error|.
C11_RecordScoresExact ==
  [][\A c \in SubPixelClickXs :
       AcceptedClick /\ onCanvasClick(c) =>
         /\ NewRecord.truth_x_px = TruthOfEvent
         /\ NewRecord.signed_error_px = c - TruthOfEvent
         /\ NewRecord.abs_error_px = Abs(NewRecord.signed_error_px)
         /\ NewRecord.abs_error_px >= 0]_vars

\* C11 (amended): for every accepted click the record's ground truth is the
\* clamped event position rounded to 2 decimals, its signed error is
\* clickX - truth rounded to 2 decimals and its absolute error is
\* |clickX - truth| rounded to 2 decimals: non-negative, and within 0.01 px
\* of the absolute value of the recorded signed error.
C11_RecordScoresRounded ==
  [][\A c \in SubPixelClickXs :
       AcceptedClick /\ onCanvasClick(c) =>
         /\ NewRecord.truth_x_px = round2(TruthOfEvent)
         /\ NewRecord.click_x_px = round2(c)
         /\ NewRecord.signed_error_px = round2(c - TruthOfEvent)
         /\ NewRecord.abs_error_px = round2(Abs(c - TruthOfEvent))
         /\ NewRecord.abs_error_px >= 0
         /\ Abs(NewRecord.abs_error_px - Abs(NewRecord.signed_error_px))
              <= Unit \div Cents]_vars

\* A record whose absolute error is not the absolute value of its signed
\* error: the click fell half a cent left of the truth.
C11_Witness ==
  \E i \in 1..Len(results) :
    results[i].abs_error_px # Abs(results[i].signed_error_px)

\* The records of one participant name, and a mean of absolute errors
\* rounded to 2 decimals.
RowsOf(rows, name) == SelectSeq(rows, LAMBDA r : r.participant = name)
MeanAbsError(rows) ==
  ((2 * SumAbsError(rows) + Len(rows) * (Unit \div Cents))
     \div (2 * Len(rows) * (Unit \div Cents))) * (Unit \div Cents)
Publishes == AcceptedClick /\ summary' # Null

\* C12: every summary that is published is computed over exactly 3 trial
\* records, the last three, all carrying the summary's name and no other
\* record carrying it, and its value is the mean of their absolute errors
\* rounded to 2 decimals.
C12_SummaryOverThreeRecords ==
  [][Publishes =>
       LET s == summary'[1]
           n == Len(results')
           lastThree == SubSeq(results', n - 2, n)
       IN  /\ n >= 3
           /\ \A i \in 1..3 : lastThree[i].participant = s.participant
           /\ Len(RowsOf(results', s.participant)) = 3
           /\ s.average_abs_error_px = MeanAbsError(lastThree)]_vars

\* C13: an accepted click publishes a summary and upserts it into the
\* leaderboard iff it raises the trial counter to 3; one that raises it to 1
\* or 2 publishes nothing, leaves the leaderboard unchanged and sets
\* awaiting-next.
C13_SummaryOnThirdClick ==
  [][AcceptedClick =>
       /\ trialIdx' = trialIdx + 1
       /\ trialIdx' \in 1..3
       /\ trialIdx' = 3 =>
            /\ summary' # Null
            /\ summaries'[Len(summaries')] = summary'[1]
            /\ ~awaitingNext'
       /\ trialIdx' < 3 =>
            /\ summary' = Null
            /\ summary = Null
            /\ summaries' = summaries
            /\ awaitingNext']_vars

\* Both kinds of accepted click have happened: two records of a session that
\* awaits its third trial, after a session that was published.
C13_Witness ==
  /\ Len(results) = 5
  /\ trialIdx = 2
  /\ awaitingNext
  /\ summary = Null
  /\ Len(summaries) >= 1

\* C14: the leaderboard never holds two entries of one name; a publication
\* leaves exactly one entry of its name, the new summary, at the end, and
\* keeps the entries of the other names in their order.
C14_OneEntryPerName ==
  /\ [](\A i, j \in 1..Len(summaries) :
          summaries[i].participant = summaries[j].participant => i = j)
  /\ [][Publishes =>
          LET s == summary'[1]
              others(board) ==
                SelectSeq(board, LAMBDA e : e.participant # s.participant)
          IN  /\ summaries'[Len(summaries')] = s
              /\ others(summaries') = others(summaries)
              /\ Len(summaries') = Len(others(summaries)) + 1]_vars

\* A name has been published twice: its one entry carries the second value,
\* which differs from the first.
C14_Witness ==
  /\ Len(results) = 6
  /\ Len(summaries) = 1
  /\ summary # Null
  /\ summaries[1] = summary[1]
  /\ results[1].participant = summary[1].participant
  /\ summary[1].average_abs_error_px # MeanAbsError(SubSeq(results, 1, 3))

\* C15: start, next-trial, new-participant, tick, resize, name edits and
\* mode changes leave the record list and the leaderboard unchanged; the
\* record list changes only by a reset or by an accepted click that appends
\* one record at its end, and the leaderboard only with the record list.
C15_RecordsAppendOnly ==
  [][/\ results' # results =>
          \/ reset
          \/ /\ Scorable
             /\ \E x \in ClickXs : onCanvasClick(x * Unit)
             /\ Len(results') = Len(results) + 1
             /\ SubSeq(results', 1, Len(results)) = results
     /\ summaries' # summaries => results' # results]_vars

\* Three records have outlived a new-participant restart and a resize.
C15_Witness ==
  /\ Len(results) = 3
  /\ trialIdx = 0
  /\ summary = Null
  /\ Len(summaries) = 1
  /\ stageSize.width # 900

\* x carried from a stage of width w to one of width w2, to the nearest
\* 1/1000 px: padding + (x - padding) * (w2 - 2*padding) / (w - 2*padding).
Proportional(x, w, w2) ==
  LET p == padding \div Unit
  IN  padding + (2 * (x - padding) * (w2 - 2 * p) + (w - 2 * p))
                  \div (2 * (w - 2 * p))

\* C16: a resize to a different width maps the position, and the recorded
\* event position when it is set, by Proportional and leaves a null event
\* position null; a resize to the same width changes neither; padding 24,
\* w = 900, w' = 600, x = 450 gives 300.
C16_ResizeRescales ==
  [][/\ stageSize'.width # stageSize.width =>
          /\ posRef' = Proportional(posRef, stageSize.width, stageSize'.width)
          /\ eventXRef = Null => eventXRef' = Null
          /\ eventXRef # Null =>
               eventXRef' = <<Proportional(eventXRef[1], stageSize.width,
                                           stageSize'.width)>>
     /\ stageSize'.width = stageSize.width
          /\ <<posRef, eventXRef>>' # <<posRef, eventXRef>> => ~Resize
     /\ Rescale(450 * Unit, 900, 600) = 300 * Unit]_vars

\* A flash-lag trial was resized to the narrow stage after its flash: the
\* target stands between two of the places a tick can put it.
C16_Witness ==
  /\ stageSize.width = 474
  /\ runningRef
  /\ eventXRef # Null
  /\ posRef > eventXRef[1]
  /\ \A v \in Speeds : (posRef - padding) % (v * FrameMs) # 0

\* C17: while a trial is running a tick is pending, and it evaluates the
\* trigger x and the right boundary against the current stage width: a
\* resize between two ticks is followed by ticks that use the new width.
C17_TicksUseNewWidth ==
  [](runningRef =>
       /\ pendingFrames # {}
       /\ \A f \in pendingFrames : f.env.width = stageSize.width)

\* C18: a trial's ticks use the mode, speed and event offset resolved at its
\* start.  The start takes them from the settings of that moment; while the
\* trial runs, whatever is changed in the settings panel, the offset and the
\* callback's mode and speed stay as they are; every tick advances by the
\* start's speed, fires against the start's trigger x and stops as the
\* start's mode prescribes.
C18_TrialConfigFrozen ==
  [][/\ ~runningRef /\ runningRef' =>
          \A f \in pendingFrames' :
            /\ f.env.speed = speed
            /\ f.env.mode = mode
            /\ mode = MODE_FLASH_LAG => currentLeadRef' = flashLead * Unit
            /\ mode = MODE_DISAPPEARING =>
                 /\ currentLeadRef' >= disappearRange.min * Unit
                 /\ currentLeadRef' <= disappearRange.max * Unit
     /\ runningRef /\ runningRef' =>
          /\ currentLeadRef' = currentLeadRef
          /\ \A f \in pendingFrames, g \in pendingFrames' : g.env = f.env
     /\ \A f \in pendingFrames :
          runningRef /\ lastTsRef' # lastTsRef =>
            LET dt == IF lastTsRef = 0 THEN 0 ELSE lastTsRef' - lastTsRef
                triggerX == (f.env.width * Unit) \div 2 - currentLeadRef
            IN  /\ posRef' = posRef + f.env.speed * dt
                /\ eventTriggeredRef' <=>
                     eventTriggeredRef \/ posRef' >= triggerX
                /\ f.env.mode = MODE_DISAPPEARING =>
                     (runningRef' <=> ~eventTriggeredRef')
                /\ f.env.mode = MODE_FLASH_LAG =>
                     (runningRef' <=> posRef' < xMaxOfStage)]_vars

\* A flash-lag trial runs on after its flash while the panel shows another
\* mode, another speed and another lead than the trial's.
C18_Witness ==
  /\ runningRef
  /\ eventTriggeredRef
  /\ mode = MODE_DISAPPEARING
  /\ currentLeadRef # flashLead * Unit
  /\ \E f \in pendingFrames :
       f.env.mode = MODE_FLASH_LAG /\ f.env.speed # speed

\* C19: stop is idempotent: from every reachable state, stopping twice
\* gives what stopping once gives, and stopping a stopped machine changes
\* nothing; after stop the running flags are down and no callback is pending.
C19_StopIdempotent ==
  LET once == stop(RunHandles)
  IN  /\ stop(once) = once
      /\ ~once.runningRef
      /\ ~once.isRunning
      /\ once.pendingFrames = {}
      /\ (~runningRef /\ ~isRunning /\ pendingFrames = {}) => once = RunHandles

\* "Reset all" has stopped a trial in mid-run, before its event.
C19_Witness ==
  /\ participant = <<>>
  /\ results = <<>>
  /\ ~runningRef
  /\ ~isRunning
  /\ pendingFrames = {}
  /\ lastTsRef > 0
  /\ posRef > padding
  /\ posRef < xMaxOfStage

\* The trigger x of the running trial: stageWidth / 2 - offset.
TriggerXOfTrial == (stageSize.width * Unit) \div 2 - currentLeadRef

\* C20: triggerX(w, o) = w/2 - o (900 and 80 give 370).  A tick of a running
\* trial fires the event iff the event has not fired and the tick leaves
\* position >= triggerX; the event position recorded is the position that
\* tick leaves, which is >= triggerX, and later ticks do not record again;
\* after every earlier tick position < triggerX.
C20_FiresAtFirstCrossing ==
  /\ [](computeTargetX(900, 80 * Unit) = 370 * Unit)
  /\ [](runningRef /\ ~eventTriggeredRef /\ lastTsRef > 0
          /\ pendingFrames # {} => posRef < TriggerXOfTrial)
  /\ [][runningRef /\ pendingFrames # {} /\ lastTsRef' # lastTsRef =>
          /\ (~eventTriggeredRef /\ eventTriggeredRef') <=>
               (~eventTriggeredRef /\ posRef' >= TriggerXOfTrial)
          /\ ~eventTriggeredRef /\ eventTriggeredRef' =>
               /\ eventXRef' = <<posRef'>>
               /\ eventXRef'[1] >= TriggerXOfTrial
          /\ eventTriggeredRef =>
               eventTriggeredRef' /\ eventXRef' = eventXRef]_vars

\* A flash-lag trial runs on after an event that fired past its trigger x,
\* several ticks after the start.
C20_Witness ==
  /\ runningRef
  /\ eventTriggeredRef
  /\ pendingFrames # {}
  /\ eventXRef # Null
  /\ eventXRef[1] > TriggerXOfTrial
  /\ eventXRef[1] > padding
  /\ posRef > eventXRef[1]

\* Bounds of the offset range, whichever way round they were given.
OffsetLo == Min(disappearRange.min, disappearRange.max)
OffsetHi == Max(disappearRange.min, disappearRange.max)
OnGrid(v) == v % 5 = 0

\* C21: the offset drawn by pickRandomOffset for a trial lies between the
\* smaller and the larger of its two arguments, whichever order they are
\* given in, and is that value itself when the two arguments are equal.
C21_OffsetWithinRange ==
  runningRef =>
    /\ OffsetLo * Unit <= currentLeadRef
    /\ currentLeadRef <= OffsetHi * Unit
    /\ disappearRange.min = disappearRange.max =>
         currentLeadRef = disappearRange.min * Unit

\* A trial started with the arguments in descending order and off the 5 px
\* grid: the stepped value overshoots and the clamp brings it back.
C21_Witness ==
  /\ runningRef
  /\ disappearRange.min > disappearRange.max
  /\ ~OnGrid(disappearRange.min)
  /\ currentLeadRef = disappearRange.min * Unit

\* C22 as stated: for every min < max the drawn offset is a multiple of 5.
C22_AlwaysMultipleOfFive ==
  runningRef /\ disappearRange.min < disappearRange.max =>
    currentLeadRef % (5 * Unit) = 0

\* C22 amended: for min < max that are themselves multiples of 5 the drawn
\* offset is a multiple of 5.
C22_MultipleOfFiveOnGrid ==
  /\ runningRef
  /\ disappearRange.min < disappearRange.max
  /\ OnGrid(disappearRange.min)
  /\ OnGrid(disappearRange.max)
  => currentLeadRef % (5 * Unit) = 0

\* The midpoint 7.5 of the range 0 .. 15 was stepped up to 10.
C22_Witness ==
  /\ runningRef
  /\ disappearRange = [min |-> 0, max |-> 15]
  /\ currentLeadRef = 10 * Unit

\* Values handed to clamp: the inputs of the offset picker and the whole
\* pixels of the target position and of the drawn offset.
ClampValues == OffsetInputs \cup {posRef \div Unit, currentLeadRef \div Unit}

\* C23: for bounds a <= b, clamp(v, a, b) lies in [a, b], equals v when v
\* already lies in [a, b], and clamping its result again changes nothing.
C23_ClampLaws ==
  \A v \in ClampValues :
    LET a == OffsetLo
        b == OffsetHi
        c == clamp(v, a, b)
    IN  /\ a <= c
        /\ c <= b
        /\ (a <= v /\ v <= b) => c = v
        /\ clamp(c, a, b) = c

\* The target has moved past the upper bound of a proper range, so that
\* clamp has values below, inside and above the bounds to deal with.
C23_Witness ==
  /\ runningRef
  /\ OffsetLo < OffsetHi
  /\ posRef \div Unit > OffsetHi
  /\ \E v \in ClampValues : v < OffsetLo
  /\ \E v \in ClampValues : OffsetLo < v /\ v < OffsetHi

\* C24: the lead_px of a trial record is the offset resolved when the trial
\* was started and used by its ticks for the trigger point: the offset the
\* ticks read is still in place when the motion ends, stays in place while
\* the response is awaited, and is what the accepted click records.
C24_RecordLeadIsTrialLead ==
  [][/\ (runningRef /\ ~runningRef' /\ responseWindowRef') =>
          currentLeadRef' = currentLeadRef
     /\ (Scorable /\ Scorable') => currentLeadRef' = currentLeadRef
     /\ AcceptedClick => NewRecord.lead_px = currentLeadRef]_vars

\* The callback a tick has just run, and a tick that ends a trial's motion.
FrameRun == CHOOSE f \in pendingFrames : f \notin pendingFrames'
MotionEnds == runningRef /\ ~runningRef' /\ responseWindowRef'

\* C25: the mode and speed of a trial record are the mode and speed its
\* trial's ticks ran under: the tick that ends the motion ran under the mode
\* and speed then selected, the selection stays while the response is
\* awaited, and the accepted click records it.
C25_RecordModeSpeedOfTicks ==
  [][/\ MotionEnds => FrameRun.env.mode = mode' /\ FrameRun.env.speed = speed'
     /\ (Scorable /\ Scorable') => mode' = mode /\ speed' = speed
     /\ AcceptedClick =>
          NewRecord.mode = mode /\ NewRecord.speed_px_s = speed]_vars

\* C26: an open response window whose trial has no accepted click is left
\* only by an accepted click or by reset, and while it is open the
\* start / next-trial command is not permitted, at trial counter 0, 1 and 2.
C26_WindowLeftByClickOrReset ==
  /\ [](Scorable /\ trialIdx < TrialsPerParticipant => ~canStartTrial)
  /\ [][Scorable /\ ~Scorable' => AcceptedClick \/ reset]_vars

\* C27: a tick of a running trial moves the target by the trial's speed times
\* the time since the previous tick; the first tick after a start sees no
\* elapsed time and leaves the target at padding; no tick moves it back.
C27_TickAdvances ==
  [][\A f \in pendingFrames :
       runningRef /\ lastTsRef' # lastTsRef =>
         /\ lastTsRef # 0 =>
              posRef' = posRef + f.env.speed * (lastTsRef' - lastTsRef)
         /\ lastTsRef = 0 => posRef' = padding
         /\ posRef' >= posRef]_vars

\* A trial whose first tick left the target at padding has then been moved
\* on by a tick spanning two display frames at the speed of its start, while
\* the speed slider shows another value.
C27_Witness ==
  /\ runningRef
  /\ lastTsRef = 3 * FrameMs
  /\ \E f \in pendingFrames :
       /\ f.env.speed # speed
       /\ posRef = padding + f.env.speed * 2 * FrameMs

\* C28: once a trial's event has fired, eventTriggered is taken back and the
\* event position is cleared only by an accepted start or by reset, and the
\* event position is given another value only by a resize: no tick fires the
\* event a second time and no click touches it.
C28_EventFiresOnce ==
  [][/\ (eventTriggeredRef /\ ~eventTriggeredRef') => startTrial \/ reset
     /\ (eventXRef # Null /\ eventXRef' = Null) => startTrial \/ reset
     /\ (eventXRef # Null /\ eventXRef' \notin {eventXRef, Null}) => Resize]_vars

\* A flash-lag trial has moved on past the place of its flash, and the
\* recorded event position is still that place.
C28_Witness ==
  /\ runningRef
  /\ eventTriggeredRef
  /\ eventXRef # Null
  /\ posRef > eventXRef[1]
  /\ \E f \in pendingFrames :
       eventXRef[1] >= computeTargetX(f.env.width, currentLeadRef)

\* C29: an accepted start or next-trial command leaves the run state reset
\* for the first tick: target at padding, event not triggered, no event
\* position, response window closed, response lock and awaiting-next
\* cleared, no previous-tick timestamp, running; the trial's offset is a
\* value within the configured range in disappearing mode and the configured
\* flash lead in flash-lag mode.
C29_StartResetsRunState ==
  [][~runningRef /\ runningRef' =>
       /\ posRef' = padding
       /\ ~eventTriggeredRef'
       /\ eventXRef' = Null
       /\ ~responseWindowRef'
       /\ ~responseLocked'
       /\ ~awaitingNext'
       /\ lastTsRef' = 0
       /\ isRunning'
       /\ mode = MODE_DISAPPEARING =>
            /\ OffsetLo * Unit <= currentLeadRef'
            /\ currentLeadRef' <= OffsetHi * Unit
       /\ mode = MODE_FLASH_LAG => currentLeadRef' = flashLead * Unit]_vars

\* The second trial of a session has just been started in flash-lag mode,
\* after a first trial that was run, scored and left awaiting the next.
C29_Witness ==
  /\ runningRef
  /\ lastTsRef = 0
  /\ posRef = padding
  /\ trialIdx = 1
  /\ Len(results) = 1
  /\ ~awaitingNext
  /\ ~responseLocked
  /\ mode = MODE_FLASH_LAG
  /\ currentLeadRef = flashLead * Unit

\* C30: with animation frames arriving and no reset or restart in between,
\* every started trial comes to open its response window, and the open
\* window is closed by nothing but an accepted click or a reset (or the
\* restart the claim sets aside).
C30_TrialReachesWindow ==
  /\ runningRef ~> (responseWindowRef \/ ~runningRef)
  /\ [][Scorable /\ ~responseWindowRef' =>
         AcceptedClick \/ reset \/ startTrial]_vars

\* A step in which the browser has run the registered callback f.
Ran(f) == f \in pendingFrames /\ f \notin pendingFrames'

\* C31: while running is false no tick callback is pending, and one that ran
\* all the same would change neither the position nor the event flags nor
\* the response window and would request no further frame; a tick leaves a
\* successor pending exactly when the trial is still running at its end.
C31_TickLoopPaused ==
  /\ [](~runningRef => pendingFrames = {})
  /\ [][\A f \in pendingFrames :
          Ran(f) /\ lastTsRef' # lastTsRef =>
            (pendingFrames' # {} <=> runningRef')]_vars
  /\ [][\A f \in pendingFrames :
          Ran(f) /\ ~runningRef =>
            /\ UNCHANGED <<posRef, eventTriggeredRef, eventXRef,
                           responseWindowRef, runningRef>>
            /\ pendingFrames' = pendingFrames \ {f}]_vars

\* The tick on which a trial's event fired has opened the response window
\* and left no callback pending.
C31_Witness ==
  /\ ~runningRef
  /\ responseWindowRef
  /\ eventTriggeredRef
  /\ lastTsRef # 0
  /\ pendingFrames = {}
  /\ results = <<>>

\* What "Reset all" leaves behind.
AfterReset ==
  /\ results = <<>>
  /\ summaries = <<>>
  /\ summary = Null
  /\ trialIdx = 0
  /\ ~awaitingNext
  /\ participant = <<>>
  /\ ~runningRef
  /\ ~isRunning
  /\ ~responseWindowRef
  /\ ~eventTriggeredRef
  /\ eventXRef = Null

\* C32: reset, from any reachable state, leaves no records, an empty
\* leaderboard, no summary, trial counter 0, awaiting-next false, an empty
\* name, running false, the response window closed, the event not triggered
\* and no event position; a click right after it is ignored; a reset of a
\* state that a reset has left changes nothing.
C32_ResetClearsAll ==
  [][reset =>
       /\ AfterReset'
       /\ ClickIgnored(responseLocked', responseWindowRef',
                       eventTriggeredRef', eventXRef')
       /\ AfterReset /\ pendingFrames = {} /\ message = <<"EnterName">> =>
            UNCHANGED vars]_vars

\* Reset has been pressed after a trial was scored: nothing recorded is
\* left, while the target stands where the trial left it.
C32_Witness ==
  /\ AfterReset
  /\ responseLocked
  /\ posRef > padding
  /\ lastTsRef > 0

renderIdleOrResponseFrame(m) ==
  responseWindowRef' /\ eventTriggeredRef' /\ m = MODE_FLASH_LAG

\* draw: the frame painted during motion by a callback of mode m at ts.
MotionFrame(m, ts) ==
  m = MODE_FLASH_LAG /\ eventTriggeredRef' /\ ts <= flashHideAtRef'

\* The canvas effect (deps stage size and mode): the static repaint with the
\* mode of the new render.
CanvasEffectFrame ==
  responseWindowRef' /\ eventTriggeredRef' /\ mode' = MODE_FLASH_LAG

\* The mount effect (deps clear, drawStage): background and border only.
MountEffectFrame == FALSE

\* The static frames a step paints, in the order they are painted.
StaticFrames ==
  IF \E f \in pendingFrames : Ran(f) /\ runningRef /\ ~runningRef'
  THEN LET f == CHOOSE g \in pendingFrames : Ran(g)
       IN  <<renderIdleOrResponseFrame(f.env.mode)>>
  ELSE (IF (stageSize' # stageSize \/ mode' # mode) /\ ~runningRef'
        THEN <<CanvasEffectFrame>> ELSE <<>>)
       \o (IF stageSize' # stageSize THEN <<MountEffectFrame>> ELSE <<>>)

\* The mode of the trial whose response prompt is on display.
PromptShown == message[1] = "ResponsePrompt" /\ message' = message
PromptMode == message[2]

\* C34: a tick of a running flash-lag trial paints the flash indicator
\* exactly when the event has fired and the timestamp is no later than the
\* firing tick's plus flashDuration; every static frame painted while the
\* response window of a flash-lag trial is open shows it; no frame of a
\* disappearing trial shows it.  Static frames are judged where the mode
\* selected is the mode of the trial.
C34_FlashIndicator ==
  [][/\ \A f \in pendingFrames :
          Ran(f) /\ runningRef /\ runningRef' =>
            /\ (~eventTriggeredRef /\ eventTriggeredRef') =>
                 flashHideAtRef' = lastTsRef' + f.env.flashDuration
            /\ MotionFrame(f.env.mode, lastTsRef') <=>
                 /\ f.env.mode = MODE_FLASH_LAG
                 /\ eventTriggeredRef'
                 /\ lastTsRef' <= flashHideAtRef'
     /\ \A f \in pendingFrames :
          Ran(f) /\ MotionEnds =>
            \A i \in DOMAIN StaticFrames :
              StaticFrames[i] <=> f.env.mode = MODE_FLASH_LAG
     /\ (/\ responseWindowRef /\ responseWindowRef'
         /\ PromptShown /\ mode' = PromptMode) =>
          \A i \in DOMAIN StaticFrames :
            StaticFrames[i] <=> PromptMode = MODE_FLASH_LAG]_vars

\* C35: every trial record carries a non-empty participant name (the
\* trimmed name its trial was started with), whatever is done to the name
\* field between the start and the click.
C35_RecordHasName ==
  \A i \in 1 .. Len(results) : results[i].participant # <<>>

\* C36: for every stage width, offset range and flash lead the controls can
\* set, the trigger x of a trial lies within [padding, stageWidth - padding],
\* and the clamp of the scoring leaves the event position where it is.
C36_TriggerInsideTrack ==
  /\ [](runningRef =>
          padding <= TriggerXOfTrial /\ TriggerXOfTrial <= xMaxOfStage)
  /\ [][AcceptedClick => TruthOfEvent = eventXRef[1]]_vars

\* C37: at most one animation callback is pending at any time, it is the one
\* requested last, and it belongs to a trial that is running: no callback of
\* an earlier trial is left to move the target next to the current one.
C37_OnePendingCallback ==
  /\ Cardinality(pendingFrames) <= 1
  /\ \A f \in pendingFrames : f.id = rafRef /\ runningRef

\* A trial started on a resized stage is two ticks into its motion: each
\* tick has replaced the pending callback by its successor.
C37_Witness ==
  /\ runningRef
  /\ lastTsRef = 2 * FrameMs
  /\ posRef > padding
  /\ stageSize.width # 900
  /\ Cardinality(pendingFrames) = 1
  /\ \A f \in pendingFrames : f.id = rafRef

\* C38: the response window is open only while the animation is not running,
\* so a click is accepted, and a record created, only when the target has
\* stopped: never between the flash of a flash-lag trial and the boundary.
C38_WindowOnlyAtRest ==
  /\ [](responseWindowRef => ~runningRef /\ ~isRunning)
  /\ [][AcceptedClick => ~runningRef /\ pendingFrames = {}]_vars

\* A flash-lag trial is past its flash with the target still on its way to
\* the boundary: the window is closed, a click is ignored and nothing has
\* been recorded.
C38_Witness ==
  /\ runningRef
  /\ eventTriggeredRef
  /\ ~responseWindowRef
  /\ results = <<>>
  /\ \E f \in pendingFrames : f.env.mode = MODE_FLASH_LAG
  /\ posRef < xMaxOfStage

\* C39: awaiting-next is true only with the trial counter at 1 or 2, the
\* animation at rest, the response window closed and responses locked; it
\* is raised only by an accepted click that is not the last of its session
\* and lowered only by an accepted start, a new participant or reset.
C39_AwaitingNext ==
  /\ [](awaitingNext =>
          /\ trialIdx \in 1 .. (TrialsPerParticipant - 1)
          /\ ~runningRef /\ ~isRunning
          /\ ~responseWindowRef
          /\ responseLocked)
  /\ [][(~awaitingNext /\ awaitingNext') =>
          AcceptedClick /\ trialIdx' < TrialsPerParticipant]_vars
  /\ [][(awaitingNext /\ ~awaitingNext') =>
          (~runningRef /\ runningRef') \/ startNewParticipant \/ reset]_vars

\* In a second session the second trial has been scored and the next one
\* is awaited.
C39_Witness ==
  /\ awaitingNext
  /\ trialIdx = 2
  /\ Len(results) = TrialsPerParticipant + 2
  /\ responseLocked
  /\ ~responseWindowRef

====
